---- MODULE Spec2Model ----
(***************************************************************************)
(* Rule evaluation and scoring pipeline of fusegu: RuleEngine              *)
(* (src/src/rules/engine.rs), the reference fraud rules                    *)
(* (src/src/rules/fraud_rules.rs) and ScoringEngine                        *)
(* (src/src/scoring/mod.rs).                                               *)
(*                                                                         *)
(* Numbers.  The f64 scores, weights and thresholds of the program are     *)
(* modelled as integers counting hundredths: 80.0 is 8000, the weight 3.0  *)
(* is 300, max_score 99.99 is 9999.  A product of two such numbers is      *)
(* divided by 100.  An order amount (a Decimal) is a number v of whole      *)
(* currency units plus a number tiny of 10^-13 parts of a unit; the f64 it  *)
(* is parsed to is v plus a number part of 10^-15 parts.                    *)
(***************************************************************************)
EXTENDS Integers, Sequences, FiniteSets, TLC

VARIABLES
    rules,      \* RuleEngine.rules: Vec<(Box<dyn FraudRule>, RuleConfig)>
    metrics,    \* RuleEngine.metrics: RuleMetrics
    context,    \* the RuleContext of the most recent evaluate call
    result,     \* the value returned by the most recent RuleEngine call
    calls,      \* the rule.evaluate calls made by the most recent pass, in order
    config,     \* ScoringEngine.config: ScoringConfig
    scoring,    \* the ScoringResult computed from `result`, if any
    admin_calls,    \* the number of administrative calls made so far
    evaluate_calls, \* the number of RuleEngine::evaluate calls that returned
    service     \* TransactionService: the lock around the engine and the
                \* analyze_transaction calls in progress

vars ==
    <<rules, metrics, context, result, calls, config, scoring, admin_calls,
      evaluate_calls, service>>

----------------------------------------------------------------------------
(* Bounds of the exploration                                               *)

MaxEvals == 2
MaxRules == 4
MaxAdminCalls == 1
MaxPipelineEvals == 2
MaxUnits == 250
MaxTasks == 2
MaxServiceAdminCalls == 1
MaxPassEvals == 1
MaxCount == 12
MaxTiny == 10
MaxThreads == 2

----------------------------------------------------------------------------
(* RulePriority (src/src/rules/mod.rs)                                     *)

Low == 1
Medium == 2
High == 3
Critical == 4

RulePriority == {Low, Medium, High, Critical}

----------------------------------------------------------------------------
(* Rule context and feature-store responses                                *)

\* Result<u32> of FeatureStore::get_user_transaction_count(user, 1)
CountResponses ==
    {[ok |-> FALSE, v |-> 0]} \cup {[ok |-> TRUE, v |-> n] : n \in {10, 11}}

\* Result<bool> of FeatureStore::is_anonymous_ip(ip)
AnonResponses ==
    {[ok |-> FALSE, v |-> FALSE]} \cup {[ok |-> TRUE, v |-> b] : b \in BOOLEAN}

\* transaction.order.amount: Option<amount>
Amounts ==
    {[some |-> FALSE, v |-> 0, tiny |-> 0]} \cup
    {[some |-> TRUE, v |-> a, tiny |-> 0] : a \in {0, 10000, 10001}}

\* A RuleContext together with the answers the feature store gives for it.
Contexts ==
    [user : BOOLEAN, count : CountResponses, anon : AnonResponses,
     amount : Amounts]

\* The contexts tried against a reconfigured engine: a transaction with a
\* user and, for each rule, every outcome (finding, no finding, error)
EngineContexts ==
    {c \in Contexts : c.user /\ (c.amount.some => c.amount.v = 10001)}

NoContext ==
    [user |-> FALSE, count |-> [ok |-> FALSE, v |-> 0],
     anon |-> [ok |-> FALSE, v |-> FALSE],
     amount |-> [some |-> FALSE, v |-> 0, tiny |-> 0]]

\* The distance between neighbouring f64 values around v whole units, in
\* 10^-15 parts of a unit (2^-39 for 8192 <= v < 16384); below 8 units the
\* distance is less than one part
Ulp(v) ==
    IF v >= 16384 THEN 3638
    ELSE IF v >= 8192 THEN 1819
    ELSE IF v >= 4096 THEN 909
    ELSE IF v >= 2048 THEN 455
    ELSE IF v >= 1024 THEN 227
    ELSE IF v >= 512 THEN 114
    ELSE IF v >= 256 THEN 57
    ELSE IF v >= 128 THEN 28
    ELSE IF v >= 64 THEN 14
    ELSE IF v >= 32 THEN 7
    ELSE IF v >= 16 THEN 4
    ELSE IF v >= 8 THEN 2
    ELSE 1

\* amount.to_string().parse(): the digits of the Decimal are read as the
\* nearest f64
ParseF64(amount) ==
    [some |-> amount.some, v |-> amount.v,
     part |-> ((2 * amount.tiny * 100 + Ulp(amount.v)) \div (2 * Ulp(amount.v)))
                  * Ulp(amount.v)]

\* RuleContext::order_amount
order_amount(ctx) == ParseF64(ctx.amount)

----------------------------------------------------------------------------
(* The reference rules (src/src/rules/fraud_rules.rs)                      *)

RuleNames == {"high_risk_ip", "velocity_check", "suspicious_amount"}

\* FraudRule::priority of the three rules
priority(rule) ==
    CASE rule = "high_risk_ip" -> High
      [] rule = "velocity_check" -> Critical
      [] rule = "suspicious_amount" -> Medium

\* The three outcomes of FraudRule::evaluate: Ok(Some(hit)), Ok(None), Err(e)
Hit(rule, score, reason, meta) ==
    [tag |-> "hit",
     hit |-> [rule_name |-> rule, score |-> score, reason |-> reason,
              metadata |-> meta]]
NoHit ==
    [tag |-> "none",
     hit |-> [rule_name |-> "", score |-> 0, reason |-> "", metadata |-> 0]]
Failed ==
    [tag |-> "err",
     hit |-> [rule_name |-> "", score |-> 0, reason |-> "", metadata |-> 0]]

HighRiskIpRule(ctx) ==
    IF ~ctx.anon.ok THEN Failed
    ELSE IF ctx.anon.v
         THEN Hit("high_risk_ip", 5000,
                  "Transaction from anonymous IP (VPN/Proxy/Tor)", 0)
         ELSE NoHit

\* A velocity rule that asks the feature store whether or not the context
\* has a user
VelocityRuleIgnoringUser(ctx) ==
    IF ~ctx.count.ok THEN Failed
    ELSE IF ctx.count.v > 10
         THEN Hit("velocity_check", 8000,
                  "User has {} transactions in the last hour", ctx.count.v)
         ELSE NoHit

\* A velocity rule whose limit is off by one
VelocityRuleOffByOne(ctx) ==
    IF ctx.user
    THEN IF ~ctx.count.ok THEN Failed
         ELSE IF ctx.count.v > 11
              THEN Hit("velocity_check", 8000,
                       "User has {} transactions in the last hour",
                       ctx.count.v)
              ELSE NoHit
    ELSE NoHit

VelocityRule(ctx) ==
    IF ctx.user
    THEN IF ~ctx.count.ok THEN Failed
         ELSE IF ctx.count.v > 10
              THEN Hit("velocity_check", 8000,
                       "User has {} transactions in the last hour",
                       ctx.count.v)
              ELSE NoHit
    ELSE NoHit

SuspiciousAmountRule(ctx) ==
    IF order_amount(ctx).some
    THEN IF \/ order_amount(ctx).v > 10000
            \/ order_amount(ctx).v = 10000 /\ order_amount(ctx).part > 0
         THEN Hit("suspicious_amount", 3000, "High transaction amount",
                  order_amount(ctx).v)
         ELSE IF order_amount(ctx).v = 0 /\ order_amount(ctx).part = 0
              THEN Hit("suspicious_amount", 2000, "Zero amount transaction",
                       order_amount(ctx).v)
              ELSE NoHit
    ELSE NoHit

\* Dynamic dispatch of rule.evaluate(context)
RuleEvaluate(rule, ctx) ==
    CASE rule = "high_risk_ip" -> HighRiskIpRule(ctx)
      [] rule = "velocity_check" -> VelocityRule(ctx)
      [] rule = "suspicious_amount" -> SuspiciousAmountRule(ctx)

\* get_default_fraud_rules
get_default_fraud_rules ==
    <<"high_risk_ip", "velocity_check", "suspicious_amount">>

----------------------------------------------------------------------------
(* RuleEngine (src/src/rules/engine.rs)                                    *)

\* Default weights in which High is given the weight of Medium
get_default_weightFlat(p) ==
    CASE p = Critical -> 300
      [] p = High -> 100
      [] p = Medium -> 100
      [] p = Low -> 50

get_default_weight(p) ==
    CASE p = Critical -> 300
      [] p = High -> 200
      [] p = Medium -> 100
      [] p = Low -> 50

\* The RuleConfig that RuleEngine::new builds for a rule
NewRuleConfig(rule) ==
    [name |-> rule, enabled |-> TRUE, priority |-> priority(rule),
     weight |-> get_default_weight(priority(rule))]

\* impl Default for RuleConfig
DefaultRuleConfig ==
    [name |-> "unnamed_rule", enabled |-> TRUE, priority |-> Medium,
     weight |-> 100]

\* RuleMetrics::default(): no evaluation, empty maps (an absent key of
\* rule_hits is 0, an absent key of evaluation_times the empty list)
DefaultMetrics ==
    [total_evaluations |-> 0,
     rule_hits |-> [n \in RuleNames |-> 0],
     evaluation_times |-> [n \in RuleNames |-> <<>>]]

\* RuleEngine::new
NewRules ==
    [i \in 1..Len(get_default_fraud_rules) |->
        [rule |-> get_default_fraud_rules[i],
         config |-> NewRuleConfig(get_default_fraud_rules[i])]]


\* The values of set_rule_weight's weight argument that are tried:
\* -1.0, 0.0 and 1.5 (the function accepts any f64)
WeightInputs == {-100, 0, 150}

\* Elapsed time of one rule.evaluate call, in microseconds
Micros == {300}

\* A sort that is not stable: a rule goes before the rules of its priority
InsertByPriorityUnstable(s, i, rs) ==
    LET k == Cardinality({j \in 1..Len(s) :
                 rs[s[j]].config.priority > rs[i].config.priority})
    IN SubSeq(s, 1, k) \o <<i>> \o SubSeq(s, k + 1, Len(s))

\* sorted_rules.sort_by(|a, b| b.1.priority.cmp(&a.1.priority)): a stable
\* sort of the positions of rs, highest config priority first
InsertByPriority(s, i, rs) ==
    LET k == Cardinality({j \in 1..Len(s) :
                 rs[s[j]].config.priority >= rs[i].config.priority})
    IN SubSeq(s, 1, k) \o <<i>> \o SubSeq(s, k + 1, Len(s))

RECURSIVE SortByPriorityUpTo(_, _)
SortByPriorityUpTo(rs, n) ==
    IF n = 0 THEN <<>>
    ELSE InsertByPriority(SortByPriorityUpTo(rs, n - 1), n, rs)

sorted_rules(rs) == SortByPriorityUpTo(rs, Len(rs))

\* hits.sort_by(|a, b| b.score.partial_cmp(&a.score)...): a stable sort,
\* highest score first
InsertByScore(s, h) ==
    LET k == Cardinality({j \in 1..Len(s) : s[j].score >= h.score})
    IN SubSeq(s, 1, k) \o <<h>> \o SubSeq(s, k + 1, Len(s))

RECURSIVE SortHitsUpTo(_, _)
SortHitsUpTo(hits, n) ==
    IF n = 0 THEN <<>>
    ELSE InsertByScore(SortHitsUpTo(hits, n - 1), hits[n])

\* A pass that returns the hits in the order the rules produced them
SortHitsSkipped(hits) == hits

SortHits(hits) == SortHitsUpTo(hits, Len(hits))

\* A pass that forgets the weight: the raw score goes into the total
ApplyWeightDropped(score, weight) == score

\* A pass that subtracts the weight from the score instead of multiplying
ApplyWeightSubtracting(score, weight) == score - weight

\* hit.score *= config.weight
ApplyWeight(score, weight) == (score * weight) \div 100

\* The state of one pass: the locals of evaluate, the metrics it updates and
\* the log of the rule.evaluate calls it made
StartPass(m) ==
    [hits |-> <<>>, total_score |-> 0, evaluated_count |-> 0,
     metrics |-> m, calls |-> <<>>]

\* A pass that compounds the weight with the hits the rule has accumulated
OnHitCompounding(acc, rule, hit, cfg) ==
    LET times == 1 + acc.metrics.rule_hits[rule]
        weighted ==
            [hit EXCEPT !.score = ApplyWeight(hit.score, cfg.weight) * times]
    IN [acc EXCEPT !.total_score = @ + weighted.score,
                   !.hits = Append(@, weighted),
                   !.metrics.rule_hits[rule] = @ + 1]

\* The arm Ok(Some(hit))
OnHit(acc, rule, hit, cfg) ==
    LET weighted == [hit EXCEPT !.score = ApplyWeight(hit.score, cfg.weight)]
    IN [acc EXCEPT !.total_score = @ + weighted.score,
                   !.hits = Append(@, weighted),
                   !.metrics.rule_hits[rule] = @ + 1]

\* The arm Ok(None)
OnNone(acc) == acc

\* A pass in which a failing rule throws away the findings collected so far
OnErrorDiscarding(acc) == [acc EXCEPT !.hits = <<>>, !.total_score = 0]

\* The arm Err(e): a warning is logged and the loop goes on
OnError(acc) == acc

\* A pass that counts the rules that fired instead of the rules evaluated
RecordEvaluationCountingHits(acc, rule, us) ==
    [acc EXCEPT !.metrics.evaluation_times[rule] = Append(@, us),
                !.evaluated_count = Len(acc.hits)]

\* The end of the loop body: the latency sample and evaluated_count
RecordEvaluation(acc, rule, us) ==
    [acc EXCEPT !.metrics.evaluation_times[rule] = Append(@, us),
                !.evaluated_count = @ + 1]

\* One iteration of `for (rule, config) in sorted_rules`
EvaluateRule(acc, i, rs, ctx, us) ==
    LET rule == rs[i].rule
        cfg == rs[i].config
        out == RuleEvaluate(rule, ctx)
        called == [acc EXCEPT !.calls =
                      Append(@, [index |-> i, rule |-> rule, outcome |-> out])]
        arm == CASE out.tag = "hit" -> OnHit(called, rule, out.hit, cfg)
                 [] out.tag = "none" -> OnNone(called)
                 [] out.tag = "err" -> OnError(called)
    IN IF ~cfg.enabled THEN acc
       ELSE RecordEvaluation(arm, rule, us)

RECURSIVE EvaluateLoop(_, _, _, _, _)
EvaluateLoop(acc, order, rs, ctx, us) ==
    IF order = <<>> THEN acc
    ELSE EvaluateLoop(EvaluateRule(acc, Head(order), rs, ctx, us),
                      Tail(order), rs, ctx, us)

\* The value of a call that returns no RuleEvaluationResult
NoResult ==
    [kind |-> "none", hits |-> <<>>, total_score |-> 0, rule_count |-> 0,
     evaluation_time_ms |-> 0]

\* Ok(RuleEvaluationResult { hits, total_score, rule_count, evaluation_time_ms })
EvaluationResult(acc, us) ==
    [kind |-> "evaluation", hits |-> SortHits(acc.hits),
     total_score |-> acc.total_score, rule_count |-> acc.evaluated_count,
     evaluation_time_ms |-> (acc.evaluated_count * us) \div 1000]

\* A pass that counts one evaluation for each rule it evaluated
FinishPassCountingRules(acc) ==
    [acc.metrics EXCEPT !.total_evaluations = @ + acc.evaluated_count]

\* self.metrics.total_evaluations += 1, after the loop over the rules
FinishPass(acc) == [acc.metrics EXCEPT !.total_evaluations = @ + 1]

\* RuleEngine::evaluate as a function of the engine and its arguments
EvaluatePass(rs, m, ctx, us) ==
    LET acc == EvaluateLoop(StartPass(m), sorted_rules(rs), rs, ctx, us)
    IN [result |-> EvaluationResult(acc, us),
        metrics |-> FinishPass(acc),
        calls |-> acc.calls]

\* RuleMetrics::hit_rate(rule_name), in hundredths: 0.0 before the first
\* evaluation, else hits / total_evaluations with 0 hits for an unknown name
hit_rate(m, rule_name) ==
    IF m.total_evaluations = 0 THEN 0
    ELSE LET hits == IF rule_name \in DOMAIN m.rule_hits
                     THEN m.rule_hits[rule_name] ELSE 0
         IN (100 * hits) \div m.total_evaluations

\* remove_rule: rules.retain(|(rule, _)| rule.name() != rule_name)
Retain(rs, name) == SelectSeq(rs, LAMBDA e : e.rule # name)

\* The position of the first rule called name, 0 if there is none
FirstNamed(rs, name) ==
    IF \E i \in 1..Len(rs) : rs[i].rule = name
    THEN CHOOSE i \in 1..Len(rs) :
            /\ rs[i].rule = name
            /\ \A j \in 1..(i - 1) : rs[j].rule # name
    ELSE 0

\* A set_rule_enabled that also puts the default weight back
WithEnabledResettingWeight(rs, name, enabled) ==
    IF FirstNamed(rs, name) = 0 THEN rs
    ELSE [rs EXCEPT
            ![FirstNamed(rs, name)].config.enabled = enabled,
            ![FirstNamed(rs, name)].config.weight =
                get_default_weight(rs[FirstNamed(rs, name)].config.priority)]

\* set_rule_enabled: the first rule called name, then break
WithEnabled(rs, name, enabled) ==
    IF FirstNamed(rs, name) = 0 THEN rs
    ELSE [rs EXCEPT ![FirstNamed(rs, name)].config.enabled = enabled]

\* set_rule_weight: the first rule called name, then break
WithWeight(rs, name, weight) ==
    IF FirstNamed(rs, name) = 0 THEN rs
    ELSE [rs EXCEPT ![FirstNamed(rs, name)].config.weight = weight]

----------------------------------------------------------------------------
(* ScoringEngine (src/src/scoring/mod.rs)                                  *)

\* impl Default for RiskThresholds: 10.0, 30.0, 70.0
DefaultRiskThresholds == [low |-> 1000, medium |-> 3000, high |-> 7000]

\* impl Default for ScoringConfig: base 1.0, max 99.99, normalization on
DefaultScoringConfig ==
    [base_score |-> 100, max_score |-> 9999,
     risk_thresholds |-> DefaultRiskThresholds, normalize_scores |-> TRUE]

\* f64::NEG_INFINITY as a total_score, which is an f64: the total of a pass
\* in which a finding was weighted by an infinite negative weight.  Every
\* sum with it is NegInfinity and it is less than every other score.
NegInfinity == -1073741824

\* The sum of two f64 scores
FAdd(a, b) == IF a = NegInfinity \/ b = NegInfinity THEN NegInfinity ELSE a + b

\* e^(-a) for 0 <= a <= 0.125, a and the value in ten-thousandths: the
\* series 1 - a + a^2/2 - a^3/6
ExpNegSeries(a) ==
    LET t2 == (a * a) \div 20000
        t3 == (t2 * a) \div 30000
    IN 10000 - a + t2 - t3

\* e^(-a) for a >= 0, a and the value in ten-thousandths: e^(-a) is the
\* square of e^(-a/2).  The normalized scores computed from it are within
\* 0.06 of the f64 values for totals between -300 and 300.
RECURSIVE ExpNeg(_)
ExpNeg(a) ==
    IF a <= 1250 THEN ExpNegSeries(a)
    ELSE LET h == ExpNeg(a \div 2) IN (h * h) \div 10000

\* 1.0 / (1.0 + (-score / 20.0).exp()), in ten-thousandths.  score is in
\* hundredths, so |score| / 20 is 5 * |score| ten-thousandths; for a
\* negative score exp() is 1 / e^(-|score|/20), and for NEG_INFINITY it is
\* infinite and the quotient 0
Sigmoid(score) ==
    IF score = NegInfinity THEN 0
    ELSE LET e == ExpNeg(5 * (IF score >= 0 THEN score ELSE -score))
         IN IF score >= 0 THEN (10000 * 10000) \div (10000 + e)
            ELSE (10000 * e) \div (10000 + e)

\* f64::max and f64::min
FMax(a, b) == IF a >= b THEN a ELSE b
FMin(a, b) == IF a <= b THEN a ELSE b

\* A normalization without the final clamp
normalize_scoreUnclamped(cfg, score) ==
    (cfg.max_score * Sigmoid(score)) \div 10000

\* ScoringEngine::normalize_score
normalize_score(cfg, score) ==
    LET normalized == (cfg.max_score * Sigmoid(score)) \div 10000
    IN FMin(FMax(normalized, 1), cfg.max_score)

\* A classification whose intervals are closed at the upper end
calculate_risk_levelInclusive(cfg, score) ==
    IF score <= cfg.risk_thresholds.low THEN "Low"
    ELSE IF score <= cfg.risk_thresholds.medium THEN "Medium"
    ELSE IF score <= cfg.risk_thresholds.high THEN "High"
    ELSE "VeryHigh"

\* ScoringEngine::calculate_risk_level
calculate_risk_level(cfg, score) ==
    IF score < cfg.risk_thresholds.low THEN "Low"
    ELSE IF score < cfg.risk_thresholds.medium THEN "Medium"
    ELSE IF score < cfg.risk_thresholds.high THEN "High"
    ELSE "VeryHigh"

\* A disposition that sends High to review instead of rejecting it
calculate_dispositionLenient(risk_level) ==
    CASE risk_level = "Low" -> "Accept"
      [] risk_level \in {"Medium", "High"} -> "Review"
      [] risk_level = "VeryHigh" -> "Reject"

\* ScoringEngine::calculate_disposition
calculate_disposition(risk_level) ==
    CASE risk_level = "Low" -> "Accept"
      [] risk_level = "Medium" -> "Review"
      [] risk_level \in {"High", "VeryHigh"} -> "Reject"

\* Decimal::from_f64_retain(x).unwrap_or_else(|| Decimal::from(0)): the
\* finite scores of the model are far inside the range of Decimal, where the
\* conversion keeps the value; for an infinite score it returns None and the
\* risk score is 0
risk_score_of(normalized_score) ==
    IF normalized_score = NegInfinity THEN 0 ELSE normalized_score

\* A contribution that reports half of the weighted score
RuleContributionHalved(hit) ==
    [rule_name |-> hit.rule_name, score |-> hit.score, weight |-> 100,
     weighted_score |-> hit.score \div 2, reason |-> hit.reason]

\* The RuleContribution built for one hit
RuleContribution(hit) ==
    [rule_name |-> hit.rule_name, score |-> hit.score, weight |-> 100,
     weighted_score |-> hit.score, reason |-> hit.reason]

\* The value of `scoring` when no ScoringResult has been computed
NoScoring ==
    [kind |-> "none", risk_score |-> 0, risk_level |-> "Low",
     disposition |-> "Accept", rule_contributions |-> <<>>,
     score_breakdown |->
        [base_score |-> 0, rule_score |-> 0, total_score |-> 0,
         normalized_score |-> 0, rule_count |-> 0]]

\* ScoringEngine::calculate_score
calculate_score(cfg, rule_result) ==
    LET rule_score == rule_result.total_score
        total_score == FAdd(cfg.base_score, rule_score)
        normalized_score ==
            IF cfg.normalize_scores THEN normalize_score(cfg, total_score)
            ELSE FMin(total_score, cfg.max_score)
        risk_level == calculate_risk_level(cfg, normalized_score)
    IN [kind |-> "scoring",
        risk_score |-> risk_score_of(normalized_score),
        risk_level |-> risk_level,
        disposition |-> calculate_disposition(risk_level),
        rule_contributions |->
            [i \in 1..Len(rule_result.hits) |->
                RuleContribution(rule_result.hits[i])],
        score_breakdown |->
            [base_score |-> cfg.base_score, rule_score |-> rule_score,
             total_score |-> total_score,
             normalized_score |-> normalized_score,
             rule_count |-> Len(rule_result.hits)]]

\* ScoringEngine::calculate_risk_score: the risk_score of calculate_score,
\* the Decimal printed and parsed back to the f64 it was made from
calculate_risk_score(cfg, rule_result) ==
    calculate_score(cfg, rule_result).risk_score

\* impl From<f64> for RiskLevel (src/src/models/common.rs)
RiskLevelFrom(score) ==
    IF score < 1000 THEN "Low"
    ELSE IF score < 3000 THEN "Medium"
    ELSE IF score < 7000 THEN "High"
    ELSE "VeryHigh"

\* impl From<RiskLevel> for Disposition (src/src/models/common.rs)
DispositionFrom(risk_level) ==
    CASE risk_level = "Low" -> "Accept"
      [] risk_level = "Medium" -> "Review"
      [] risk_level \in {"High", "VeryHigh"} -> "Reject"

\* TransactionAnalysisResponse::from_analysis(transaction, risk_score,
\* rule_names): the fields computed from the risk score
from_analysis(risk_score) ==
    [risk_score |-> risk_score,
     risk_level |-> RiskLevelFrom(risk_score),
     disposition |-> DispositionFrom(RiskLevelFrom(risk_score))]

----------------------------------------------------------------------------
(* TransactionService (src/src/services/transaction_service.rs)            *)

\* The positions of an analyze_transaction call: before the lock is taken
\* ("start"), inside self.rule_engine.lock() ("lock"), inside
\* rule_engine.evaluate_transaction ("evaluate"), suspended at
\* rule.evaluate(context).await on a pending feature-store lookup ("await"),
\* woken by the lookup's return and waiting to be polled ("ready"), between
\* the return of the pass and drop(rule_engine) ("drop"), after the drop
\* ("done")
Positions == {"start", "lock", "evaluate", "await", "ready", "drop", "done"}

\* An analyze_transaction call that has not reached the lock
NewTask ==
    [pc |-> "start", thread |-> 0, ctx |-> NoContext, order |-> <<>>,
     locked |-> <<>>, acc |-> StartPass(DefaultMetrics), result |-> NoResult]

\* TransactionService::new(db_pool, rule_engine, risk_scorer): the mutex
\* around the engine is free (lock = 0) and MaxTasks requests are to come
NewService == [lock |-> 0, tasks |-> [t \in 1..MaxTasks |-> NewTask]]

----------------------------------------------------------------------------
(* The engine and the scoring stage as a state machine                     *)

\* RuleEngine::new() and ScoringEngine::new()
Init ==
    /\ rules = NewRules
    /\ metrics = DefaultMetrics
    /\ context = NoContext
    /\ result = NoResult
    /\ calls = <<>>
    /\ config = DefaultScoringConfig
    /\ scoring = NoScoring
    /\ admin_calls = 0
    /\ evaluate_calls = 0
    /\ service = NewService

\* What a call of an administrative operation leaves besides the rule list:
\* it returns (), and the metrics and the scoring config are untouched
AdminReturns ==
    /\ admin_calls < MaxAdminCalls
    /\ admin_calls' = admin_calls + 1
    /\ context' = NoContext
    /\ result' = NoResult
    /\ calls' = <<>>
    /\ scoring' = NoScoring
    /\ UNCHANGED <<metrics, config, evaluate_calls, service>>

\* RuleEngine::evaluate(&mut self, context) for a context among ctxs, while
\* fewer than limit calls have been made
EvaluateWith(ctxs, limit) ==
    /\ evaluate_calls < limit
    /\ evaluate_calls' = evaluate_calls + 1
    /\ \E ctx \in ctxs, us \in Micros :
          LET pass == EvaluatePass(rules, metrics, ctx, us)
          IN /\ metrics' = pass.metrics
             /\ result' = pass.result
             /\ calls' = pass.calls
             /\ context' = ctx
    /\ scoring' = NoScoring
    /\ UNCHANGED <<rules, config, admin_calls, service>>

\* RuleEngine::evaluate on an engine that administrative calls reconfigure
Evaluate == EvaluateWith(EngineContexts, MaxEvals)

\* RuleEngine::evaluate as the first stage of the pipeline
PipelineEvaluate == EvaluateWith(Contexts, MaxPipelineEvals)

\* RuleEngine::add_rule(rule, config)
AddRule ==
    /\ Len(rules) < MaxRules
    /\ \E rule \in RuleNames :
          \E cfg \in {NewRuleConfig(rule), DefaultRuleConfig} :
              rules' = Append(rules, [rule |-> rule, config |-> cfg])
    /\ AdminReturns

\* RuleEngine::remove_rule(rule_name)
RemoveRule ==
    /\ \E name \in RuleNames \cup {"unnamed_rule"} :
          rules' = Retain(rules, name)
    /\ AdminReturns

\* RuleEngine::set_rule_enabled(rule_name, enabled)
SetRuleEnabled ==
    /\ \E name \in RuleNames \cup {"unnamed_rule"}, enabled \in BOOLEAN :
          rules' = WithEnabled(rules, name, enabled)
    /\ AdminReturns

\* RuleEngine::set_rule_weight(rule_name, weight)
SetRuleWeight ==
    /\ \E name \in RuleNames \cup {"unnamed_rule"}, weight \in WeightInputs :
          rules' = WithWeight(rules, name, weight)
    /\ AdminReturns

\* ScoringEngine::calculate_score(&rule_result) on the result of the pass
CalculateScore ==
    /\ result.kind = "evaluation"
    /\ scoring.kind = "none"
    /\ scoring' = calculate_score(config, result)
    /\ UNCHANGED <<rules, metrics, context, result, calls, config, admin_calls,
                   evaluate_calls, service>>

\* The rule engine under evaluation passes and administrative calls
Next ==
    \/ Evaluate
    \/ AddRule
    \/ RemoveRule
    \/ SetRuleEnabled
    \/ SetRuleWeight

Spec == Init /\ [][Next]_vars

\* RuleEngine::evaluate on a reconfigured engine, for the properties of a
\* single pass
PassEvaluate == EvaluateWith(EngineContexts, MaxPassEvals)

\* The rule engine under administrative calls and few passes
NextPass ==
    \/ PassEvaluate
    \/ AddRule
    \/ RemoveRule
    \/ SetRuleEnabled
    \/ SetRuleWeight

SpecPass == Init /\ [][NextPass]_vars

\* The pipeline with the default rules, weights and scoring config:
\* evaluate, then score the result
NextPipeline ==
    \/ PipelineEvaluate
    \/ CalculateScore

SpecPipeline == Init /\ [][NextPipeline]_vars

\* The scoring configs tried: ScoringConfig::default() and configs given to
\* with_config / update_config, with ascending thresholds
ScoringConfigs ==
    [base_score : {0, 100}, max_score : {5000, 9999},
     risk_thresholds :
        {DefaultRiskThresholds, [low |-> 2000, medium |-> 2000, high |-> 4000]},
     normalize_scores : BOOLEAN]

\* The total_score values of the evaluation results handed to
\* calculate_score: every whole score from -MaxUnits to MaxUnits, the
\* hundredth below and above it, and NEG_INFINITY
TotalInputs ==
    {t * 100 + d : t \in (-MaxUnits)..MaxUnits, d \in {-1, 0, 1}}
    \cup {NegInfinity}

\* A RuleEvaluationResult with the given total, as a pass with one finding
\* (none if the total is 0) returns it
ResultWithTotal(t) ==
    [kind |-> "evaluation",
     hits |-> IF t = 0 THEN <<>>
              ELSE <<[rule_name |-> "velocity_check", score |-> t,
                      reason |-> "User has {} transactions in the last hour",
                      metadata |-> 11]>>,
     total_score |-> t,
     rule_count |-> Len(get_default_fraud_rules),
     evaluation_time_ms |-> 0]

\* ScoringEngine::new() or ScoringEngine::with_config(config)
InitScoring ==
    /\ rules = NewRules
    /\ metrics = DefaultMetrics
    /\ context = NoContext
    /\ result = NoResult
    /\ calls = <<>>
    /\ config \in ScoringConfigs
    /\ scoring = NoScoring
    /\ admin_calls = 0
    /\ evaluate_calls = 0
    /\ service = NewService

\* ScoringEngine::calculate_score(&rule_result) on a result the caller
\* holds; calculate_score reads nothing but the config and its argument, so
\* one call per config shows all of them
ScoreResult ==
    /\ scoring.kind = "none"
    /\ \E t \in TotalInputs :
          /\ result' = ResultWithTotal(t)
          /\ scoring' = calculate_score(config, ResultWithTotal(t))
    /\ UNCHANGED <<rules, metrics, context, calls, config, admin_calls,
                   evaluate_calls, service>>

\* ScoringEngine::update_config(config)
UpdateConfig ==
    /\ \E c \in ScoringConfigs : config' = c
    /\ result' = NoResult
    /\ scoring' = NoScoring
    /\ UNCHANGED <<rules, metrics, context, calls, admin_calls,
                   evaluate_calls, service>>

NextScoring ==
    \/ ScoreResult
    \/ UpdateConfig

SpecScoring == InitScoring /\ [][NextScoring]_vars

----------------------------------------------------------------------------
(* The reference rules, each called on its own                             *)

\* Result<u32> of get_user_transaction_count: an error or a count
RuleCounts ==
    {[ok |-> FALSE, v |-> 0]} \cup {[ok |-> TRUE, v |-> n] : n \in 0..MaxCount}

\* Option<Decimal> order amounts: absent, or a negative, zero, small, large
\* or limit number of units plus up to MaxTiny 10^-13 parts of a unit
DecimalAmounts ==
    {[some |-> FALSE, v |-> 0, tiny |-> 0]} \cup
    {[some |-> TRUE, v |-> a, tiny |-> t] :
        a \in {-1, 0, 1, 5000, 9999, 10000, 10001}, t \in 0..MaxTiny}

\* The contexts a rule is called on
RuleContexts ==
    [user : BOOLEAN, count : RuleCounts, anon : AnonResponses,
     amount : DecimalAmounts]

\* A RuleContext built by RuleContext::new, no rule called yet
InitRules ==
    /\ rules = NewRules
    /\ metrics = DefaultMetrics
    /\ context \in RuleContexts
    /\ result = NoResult
    /\ calls = <<>>
    /\ config = DefaultScoringConfig
    /\ scoring = NoScoring
    /\ admin_calls = 0
    /\ evaluate_calls = 0
    /\ service = NewService

\* rule.evaluate(&context) called on the rule itself; its outcome is kept
\* in calls
RuleReturns(rule, outcome) ==
    /\ calls = <<>>
    /\ calls' = <<[index |-> 0, rule |-> rule, outcome |-> outcome]>>
    /\ UNCHANGED <<rules, metrics, context, result, config, scoring,
                   admin_calls, evaluate_calls, service>>

\* HighRiskIpRule.evaluate(&context)
EvaluateHighRiskIp == RuleReturns("high_risk_ip", HighRiskIpRule(context))

\* VelocityRule.evaluate(&context)
EvaluateVelocity == RuleReturns("velocity_check", VelocityRule(context))

\* SuspiciousAmountRule.evaluate(&context)
EvaluateSuspiciousAmount ==
    RuleReturns("suspicious_amount", SuspiciousAmountRule(context))

NextRules ==
    \/ EvaluateHighRiskIp
    \/ EvaluateVelocity
    \/ EvaluateSuspiciousAmount

SpecRules == InitRules /\ [][NextRules]_vars

----------------------------------------------------------------------------
(* Concurrent analyze_transaction calls on one Arc<Mutex<RuleEngine>>      *)

\* The requests and feature-store responses of the concurrent analyses:
\* evaluate_transaction always passes a user and an order; both lookups
\* fail, both find nothing, or both find something
ServiceContexts ==
    {c \in EngineContexts :
        /\ c.amount.some
        /\ c.count.ok = c.anon.ok
        /\ (c.count.v = 11) = c.anon.v}

\* The rule the administrative calls made beside the analyses are about
ServiceRuleNames == {"velocity_check"}

\* A mutex that lets every caller in
LockFreeAlways(s) == TRUE

\* self.rule_engine.lock() returns when no guard of the mutex is alive
LockFree(s) == s.lock = 0

\* let mut rule_engine = self.rule_engine.lock().unwrap(), then
\* evaluate_transaction up to the first rule: the context is built and the
\* rules are sorted
Lock(t) ==
    /\ service.tasks[t].pc = "start"
    /\ LockFree(service)
    /\ \E ctx \in ServiceContexts :
          service' =
              [service EXCEPT
                  !.lock = t,
                  !.tasks[t] = [pc |-> "evaluate",
                                thread |-> service.tasks[t].thread,
                                ctx |-> ctx,
                                order |-> sorted_rules(rules),
                                locked |-> rules,
                                acc |-> StartPass(metrics),
                                result |-> NoResult]]
    /\ UNCHANGED <<rules, metrics, context, result, calls, config, scoring,
                   admin_calls, evaluate_calls>>

\* One turn of the loop of evaluate: rule.evaluate(context).await on the
\* next rule of the sorted list, then the bookkeeping of its outcome in
\* self.metrics
EvaluateHead(t, from) ==
    LET task == service.tasks[t] IN
    /\ task.pc = from
    /\ task.order # <<>>
    /\ \E us \in Micros :
          LET acc == EvaluateRule([task.acc EXCEPT !.metrics = metrics],
                                  Head(task.order), rules, task.ctx, us)
          IN /\ metrics' = acc.metrics
             /\ service' = [service EXCEPT
                               !.tasks[t].pc = "evaluate",
                               !.tasks[t].acc = acc,
                               !.tasks[t].order = Tail(task.order)]
    /\ UNCHANGED <<rules, context, result, calls, config, scoring,
                   admin_calls, evaluate_calls>>

\* A turn of the loop whose await is ready at its first poll
EvaluateNext(t) == EvaluateHead(t, "evaluate")

\* The end of evaluate: total_evaluations += 1, the hits are sorted and
\* Ok(RuleEvaluationResult) goes back to analyze_transaction
Return(t) ==
    LET task == service.tasks[t] IN
    /\ task.pc = "evaluate"
    /\ task.order = <<>>
    /\ \E us \in Micros :
          LET acc == [task.acc EXCEPT !.metrics = metrics]
          IN /\ metrics' = FinishPass(acc)
             /\ service' = [service EXCEPT
                               !.tasks[t].acc = acc,
                               !.tasks[t].result = EvaluationResult(acc, us),
                               !.tasks[t].pc = "drop"]
    /\ evaluate_calls' = evaluate_calls + 1
    /\ UNCHANGED <<rules, context, result, calls, config, scoring,
                   admin_calls>>

\* drop(rule_engine): the guard dies and the mutex is free again
Drop(t) ==
    /\ service.tasks[t].pc = "drop"
    /\ service' = [service EXCEPT !.lock = 0, !.tasks[t].pc = "done"]
    /\ UNCHANGED <<rules, metrics, context, result, calls, config, scoring,
                   admin_calls, evaluate_calls>>

\* An administrative call on the shared engine: &mut RuleEngine is reached
\* through the mutex only, so the call runs while it holds the lock
ServiceAdminReturns ==
    /\ LockFree(service)
    /\ admin_calls < MaxServiceAdminCalls
    /\ admin_calls' = admin_calls + 1
    /\ UNCHANGED <<metrics, context, result, calls, config, scoring,
                   evaluate_calls, service>>

\* rule_engine.lock().unwrap().add_rule(rule, config)
ServiceAddRule ==
    /\ Len(rules) < MaxRules
    /\ \E rule \in ServiceRuleNames :
          rules' = Append(rules, [rule |-> rule, config |-> NewRuleConfig(rule)])
    /\ ServiceAdminReturns

\* rule_engine.lock().unwrap().remove_rule(rule_name)
ServiceRemoveRule ==
    /\ \E name \in ServiceRuleNames : rules' = Retain(rules, name)
    /\ ServiceAdminReturns

\* rule_engine.lock().unwrap().set_rule_enabled(rule_name, false)
ServiceSetRuleEnabled ==
    /\ \E name \in ServiceRuleNames : rules' = WithEnabled(rules, name, FALSE)
    /\ ServiceAdminReturns

\* rule_engine.lock().unwrap().set_rule_weight(rule_name, weight)
ServiceSetRuleWeight ==
    /\ \E name \in ServiceRuleNames, weight \in WeightInputs :
          rules' = WithWeight(rules, name, weight)
    /\ ServiceAdminReturns

\* Concurrent analyses and administrative calls on one shared engine
NextService ==
    \/ \E t \in 1..MaxTasks : Lock(t)
    \/ \E t \in 1..MaxTasks : EvaluateNext(t)
    \/ \E t \in 1..MaxTasks : Return(t)
    \/ \E t \in 1..MaxTasks : Drop(t)
    \/ ServiceAddRule
    \/ ServiceRemoveRule
    \/ ServiceSetRuleEnabled
    \/ ServiceSetRuleWeight

SpecService == Init /\ [][NextService]_vars

\* Whether executor thread th has no analysis on it but t that is running:
\* a future runs on its thread from one poll to its next pending await, and
\* std::sync::Mutex::lock() parks the calling thread, so an analysis inside
\* lock(), inside the pass or before the drop keeps its thread
ThreadFree(th, t) ==
    \A u \in 1..MaxTasks \ {t} :
        ~(/\ service.tasks[u].thread = th
          /\ service.tasks[u].pc \in {"lock", "evaluate", "drop"})

\* Whether the next rule of the pass awaits the feature store:
\* is_anonymous_ip in HighRiskIpRule, get_user_transaction_count in
\* VelocityRule; a disabled rule is skipped and SuspiciousAmountRule awaits
\* nothing
AwaitsFeatureStore(t) ==
    LET task == service.tasks[t] IN
    /\ task.order # <<>>
    /\ rules[Head(task.order)].config.enabled
    /\ rules[Head(task.order)].rule \in {"high_risk_ip", "velocity_check"}

\* analyze_transaction is polled so far as self.rule_engine.lock(): the
\* future holds a MutexGuard across an await, is not Send and stays on the
\* executor thread that polls it, which is now inside lock()
Request(t) ==
    /\ service.tasks[t].pc = "start"
    /\ \E th \in 1..MaxThreads, ctx \in ServiceContexts :
          /\ ThreadFree(th, t)
          /\ service' = [service EXCEPT
                            !.tasks[t].pc = "lock",
                            !.tasks[t].thread = th,
                            !.tasks[t].ctx = ctx]
    /\ UNCHANGED <<rules, metrics, context, result, calls, config, scoring,
                   admin_calls, evaluate_calls>>

\* lock() returns the guard, and evaluate_transaction runs up to the first
\* rule
Acquire(t) ==
    /\ service.tasks[t].pc = "lock"
    /\ LockFree(service)
    /\ service' = [service EXCEPT
                      !.lock = t,
                      !.tasks[t].pc = "evaluate",
                      !.tasks[t].order = sorted_rules(rules),
                      !.tasks[t].locked = rules,
                      !.tasks[t].acc = StartPass(metrics)]
    /\ UNCHANGED <<rules, metrics, context, result, calls, config, scoring,
                   admin_calls, evaluate_calls>>

\* rule.evaluate(context).await is pending on a feature-store lookup: the
\* future returns Poll::Pending with the guard alive in it, and its thread
\* goes on to other futures
Suspend(t) ==
    /\ service.tasks[t].pc = "evaluate"
    /\ AwaitsFeatureStore(t)
    /\ service' = [service EXCEPT !.tasks[t].pc = "await"]
    /\ UNCHANGED <<rules, metrics, context, result, calls, config, scoring,
                   admin_calls, evaluate_calls>>

\* The feature-store lookup returns and wakes the future
FeatureStoreReturns(t) ==
    /\ service.tasks[t].pc = "await"
    /\ service' = [service EXCEPT !.tasks[t].pc = "ready"]
    /\ UNCHANGED <<rules, metrics, context, result, calls, config, scoring,
                   admin_calls, evaluate_calls>>

\* The woken future is polled again, on its own thread, and the turn of
\* the loop it was suspended in goes on
Resume(t) ==
    /\ ThreadFree(service.tasks[t].thread, t)
    /\ EvaluateHead(t, "ready")

\* Concurrent analyses on the executor's threads, feature-store lookups
\* that may be pending included
NextServiceLive ==
    \/ \E t \in 1..MaxTasks : Request(t)
    \/ \E t \in 1..MaxTasks : Acquire(t)
    \/ \E t \in 1..MaxTasks : EvaluateNext(t)
    \/ \E t \in 1..MaxTasks : Suspend(t)
    \/ \E t \in 1..MaxTasks : FeatureStoreReturns(t)
    \/ \E t \in 1..MaxTasks : Resume(t)
    \/ \E t \in 1..MaxTasks : Return(t)
    \/ \E t \in 1..MaxTasks : Drop(t)

\* Every feature-store lookup returns, the executor polls every woken
\* future whose thread is not taken, a thread inside lock() gets the
\* guard of a mutex that stays free, and a running future runs on
FairServiceLive ==
    \A t \in 1..MaxTasks :
        /\ WF_vars(FeatureStoreReturns(t))
        /\ WF_vars(Resume(t))
        /\ SF_vars(Acquire(t))
        /\ WF_vars(EvaluateNext(t) \/ Suspend(t))
        /\ WF_vars(Return(t))
        /\ WF_vars(Drop(t))

SpecServiceLive == Init /\ [][NextServiceLive]_vars /\ FairServiceLive

----------------------------------------------------------------------------
(* Properties of one evaluation pass (checked under Spec)                  *)

\* The outcome rule i of the engine gives for the context of the last pass
OutcomeOf(i) == RuleEvaluate(rules[i].rule, context)

\* What rule i adds to the total according to the claim: raw score times
\* configured weight if it is enabled and returned a finding, else 0
ContributionOf(i) ==
    IF rules[i].config.enabled /\ OutcomeOf(i).tag = "hit"
    THEN (OutcomeOf(i).hit.score * rules[i].config.weight) \div 100
    ELSE 0

RECURSIVE SumOfContributions(_)
SumOfContributions(n) ==
    IF n = 0 THEN 0 ELSE SumOfContributions(n - 1) + ContributionOf(n)

EnabledRules == {i \in 1..Len(rules) : rules[i].config.enabled}

\* C1: the total_score of a pass is the sum of raw score x configured weight
\* over the enabled rules that returned a finding, each once; the other
\* rules add 0, and a later pass applies the same weight again, not a
\* compounded one.
C1_TotalIsWeightedSum ==
    result.kind = "evaluation" =>
        result.total_score = SumOfContributions(Len(rules))

\* A second pass in which a rule with a reconfigured weight fired while
\* another enabled rule returned no finding or failed
C1_Witness ==
    /\ result.kind = "evaluation"
    /\ metrics.total_evaluations = 2
    /\ \E i \in EnabledRules :
          /\ OutcomeOf(i).tag = "hit"
          /\ rules[i].config.weight = 150
    /\ \E i \in EnabledRules : OutcomeOf(i).tag = "err"
    /\ \E i \in EnabledRules : OutcomeOf(i).tag = "none"

\* rs without its i-th rule
WithoutRule(rs, i) == SubSeq(rs, 1, i - 1) \o SubSeq(rs, i + 1, Len(rs))

\* The position in the call log of the call on rule i, 0 if it has none
CallOn(i) ==
    IF \E k \in 1..Len(calls) : calls[k].index = i
    THEN CHOOSE k \in 1..Len(calls) : calls[k].index = i
    ELSE 0

\* The position of rule i in the evaluation order
PositionOf(i) ==
    CHOOSE k \in 1..Len(rules) : sorted_rules(rules)[k] = i

\* C2: when an enabled rule fails, the pass still returns Ok, every enabled
\* rule after it in the evaluation order is still evaluated, and the hits
\* and the total are those of the same pass without the failing rule.
C2_FailureIsIsolated ==
    \A k \in 1..Len(calls) :
        calls[k].outcome.tag = "err" =>
            /\ result.kind = "evaluation"
            /\ \A j \in EnabledRules :
                  PositionOf(j) > PositionOf(calls[k].index) => CallOn(j) > k
            /\ LET other == EvaluatePass(WithoutRule(rules, calls[k].index),
                                         DefaultMetrics, context, 300).result
               IN /\ result.hits = other.hits
                  /\ result.total_score = other.total_score

\* A pass in which the first rule evaluated failed and a later one fired
C2_Witness ==
    /\ Len(calls) >= 2
    /\ calls[1].outcome.tag = "err"
    /\ \E k \in 2..Len(calls) : calls[k].outcome.tag = "hit"
    /\ result.hits # <<>>

\* C3: a pass calls evaluate once on every enabled rule and on no disabled
\* rule, whatever the earlier outcomes, and rule_count is the number of
\* enabled rules.
C3_EveryEnabledRuleOnce ==
    result.kind = "evaluation" =>
        /\ \A i \in 1..Len(rules) :
              Cardinality({k \in 1..Len(calls) : calls[k].index = i}) =
                  (IF rules[i].config.enabled THEN 1 ELSE 0)
        /\ result.rule_count = Cardinality(EnabledRules)

\* A pass over an engine with a disabled rule in which one enabled rule
\* failed and none fired
C3_Witness ==
    /\ result.kind = "evaluation"
    /\ \E i \in 1..Len(rules) : ~rules[i].config.enabled
    /\ \E k \in 1..Len(calls) : calls[k].outcome.tag = "err"
    /\ result.hits = <<>>
    /\ result.rule_count = 2

\* C4: a pass that repeats the previous one (same rules and configs, same
\* context and feature-store answers) returns the same hits in the same
\* order, the same total_score and the same rule_count, although the
\* metrics have grown in between.
C4_RepeatedPassSameResult ==
    [][(/\ result.kind = "evaluation"
        /\ result'.kind = "evaluation"
        /\ metrics'.total_evaluations = metrics.total_evaluations + 1
        /\ rules' = rules
        /\ context' = context)
       => (/\ result'.hits = result.hits
           /\ result'.total_score = result.total_score
           /\ result'.rule_count = result.rule_count)]_vars

\* The same rule has fired in two passes, the metrics holding both hits
C4_Witness ==
    /\ result.kind = "evaluation"
    /\ metrics.total_evaluations = 2
    /\ Len(result.hits) >= 2
    /\ \E n \in RuleNames : metrics.rule_hits[n] = 2

----------------------------------------------------------------------------
(* Properties of the scoring stage (checked under SpecScoring)             *)

\* C5: whatever the scoring config and the evaluation result, with
\* normalization enabled or disabled, the risk_score of the ScoringResult
\* lies in [0, max_score].
C5_RiskScoreInRange ==
    scoring.kind = "scoring" =>
        /\ scoring.risk_score >= 0
        /\ scoring.risk_score <= config.max_score

\* C6: with normalization enabled the risk score lies in [0.01, max_score]
\* for every raw total, positive, zero or negative.
C6_NormalizedScoreBounds ==
    (scoring.kind = "scoring" /\ config.normalize_scores) =>
        /\ scoring.risk_score >= 1
        /\ scoring.risk_score <= config.max_score

\* The default config scoring a negative total that the floor of 0.01 catches
C6_Witness ==
    /\ scoring.kind = "scoring"
    /\ config = DefaultScoringConfig
    /\ scoring.score_breakdown.total_score < 0
    /\ scoring.risk_score = 1

\* C7: the risk level is given by half-open intervals of the normalized
\* score: below low Low, from low to below medium Medium, from medium to
\* below high High, from high on VeryHigh; with 10/30/70, 9.99 is Low,
\* 10.0 and 29.99 Medium, 30.0 and 69.99 High, 70.0 VeryHigh.
C7_ThresholdPartition ==
    scoring.kind = "scoring" =>
        LET s == scoring.score_breakdown.normalized_score
            t == config.risk_thresholds
            level == scoring.risk_level
        IN /\ level \in {"Low", "Medium", "High", "VeryHigh"}
           /\ (s < t.low) <=> (level = "Low")
           /\ (t.low <= s /\ s < t.medium) <=> (level = "Medium")
           /\ (t.medium <= s /\ s < t.high) <=> (level = "High")
           /\ (t.high <= s) <=> (level = "VeryHigh")
           /\ t = DefaultRiskThresholds =>
                 /\ s = 999 => level = "Low"
                 /\ s \in {1000, 2999} => level = "Medium"
                 /\ s \in {3000, 6999} => level = "High"
                 /\ s = 7000 => level = "VeryHigh"

\* A score of exactly 10.0 classified Medium under the default thresholds
C7_Witness ==
    /\ scoring.kind = "scoring"
    /\ config.risk_thresholds = DefaultRiskThresholds
    /\ scoring.score_breakdown.normalized_score = 1000
    /\ scoring.risk_level = "Medium"

\* C8: the disposition is a function of the risk level alone: Low Accept,
\* Medium Review, High and VeryHigh Reject; Test is never produced.
C8_DispositionByLevel ==
    scoring.kind = "scoring" =>
        /\ scoring.risk_level = "Low" => scoring.disposition = "Accept"
        /\ scoring.risk_level = "Medium" => scoring.disposition = "Review"
        /\ scoring.risk_level = "High" => scoring.disposition = "Reject"
        /\ scoring.risk_level = "VeryHigh" => scoring.disposition = "Reject"
        /\ scoring.disposition \in {"Accept", "Review", "Reject"}

\* A result of level High, rejected
C8_Witness ==
    /\ scoring.kind = "scoring"
    /\ scoring.risk_level = "High"
    /\ scoring.disposition = "Reject"

----------------------------------------------------------------------------
(* The two scenarios of the pipeline (checked under SpecPipeline)          *)

\* No rule of the engine returns a finding for the context of the last pass
NoRuleFires == \A i \in 1..Len(rules) : OutcomeOf(i).tag # "hit"

\* C9: with the default rules, weights and scoring config, a transaction
\* for which no rule fires has total_score 0, pre-normalization total 1.0,
\* a small positive normalized score, risk level Low and disposition Accept.
C9_CleanTransactionAccepted ==
    (scoring.kind = "scoring" /\ NoRuleFires) =>
        /\ result.total_score = 0
        /\ scoring.score_breakdown.total_score = 100
        /\ scoring.score_breakdown.normalized_score > 0
        /\ scoring.risk_level = "Low"
        /\ scoring.disposition = "Accept"

\* The user has 11 transactions in the past hour and no other rule fires
VelocityOnly ==
    /\ context.user
    /\ context.count = [ok |-> TRUE, v |-> 11]
    /\ \A i \in 1..Len(rules) :
          rules[i].rule # "velocity_check" => OutcomeOf(i).tag # "hit"

\* C10: with the default rules, weights and scoring config, 11 transactions
\* in the past hour and no other finding give one hit velocity_check of raw
\* score 80 and weight 3.0, weighted 240, pre-normalization total 241, risk
\* level VeryHigh and disposition Reject.
C10_VelocityScenario ==
    (scoring.kind = "scoring" /\ VelocityOnly) =>
        /\ Len(result.hits) = 1
        /\ result.hits[1].rule_name = "velocity_check"
        /\ \E k \in 1..Len(calls) :
              /\ calls[k].rule = "velocity_check"
              /\ calls[k].outcome.tag = "hit"
              /\ calls[k].outcome.hit.score = 8000
              /\ rules[calls[k].index].config.weight = 300
        /\ result.hits[1].score = 24000
        /\ result.total_score = 24000
        /\ scoring.score_breakdown.total_score = 24100
        /\ scoring.risk_level = "VeryHigh"
        /\ scoring.disposition = "Reject"

\* The velocity scenario scored, the anonymous-IP lookup having failed
C10_Witness ==
    /\ scoring.kind = "scoring"
    /\ VelocityOnly
    /\ ~context.anon.ok
    /\ Len(result.hits) = 1

----------------------------------------------------------------------------
(* The audit trail, the weights and the rule list                          *)

\* C11: the contribution emitted for a hit carries the rule's raw score as
\* score, the weight the engine applied as weight, and weighted_score =
\* score x weight.
C11_ContributionCarriesAppliedWeight ==
    scoring.kind = "scoring" =>
        \A c \in 1..Len(scoring.rule_contributions) :
            \E k \in 1..Len(calls) :
                LET contribution == scoring.rule_contributions[c]
                    applied == rules[calls[k].index].config.weight
                IN /\ calls[k].outcome.tag = "hit"
                   /\ calls[k].rule = contribution.rule_name
                   /\ contribution.score = calls[k].outcome.hit.score
                   /\ contribution.weight = applied
                   /\ contribution.weighted_score =
                          (contribution.score * contribution.weight) \div 100

\* The total of the pass of the last context over the engine in which the
\* weight of the first rule called name is w
TotalWithWeight(name, w) ==
    EvaluatePass(WithWeight(rules, name, w), DefaultMetrics, context, 300)
        .result.total_score

\* The weights a rule can have: the defaults and those given to
\* set_rule_weight
KnownWeights == WeightInputs \cup {get_default_weight(p) : p \in RulePriority}

\* C12: raising one rule's weight with set_rule_weight, everything else
\* fixed, never decreases the total_score of the pass: the pass of the same
\* context over the engine with the weight raised totals at least what the
\* pass just made totals.
C12_WeightMonotone ==
    result.kind = "evaluation" =>
        \A name \in RuleNames : \A higher \in KnownWeights :
            /\ FirstNamed(rules, name) # 0
            /\ rules[FirstNamed(rules, name)].config.weight <= higher
            => result.total_score <= TotalWithWeight(name, higher)

\* A pass in which a rule whose weight had been lowered to -1.0 fired, so
\* that raising it raises the total
C12_Witness ==
    /\ result.kind = "evaluation"
    /\ result.total_score < 0
    /\ \E i \in EnabledRules :
          /\ OutcomeOf(i).tag = "hit"
          /\ rules[i].config.weight = -100
          /\ TotalWithWeight(rules[i].rule, 150) > result.total_score

\* C13: the enabled rules are evaluated by descending (config) priority,
\* rules of equal priority in the order of their registration, also after
\* add_rule and remove_rule.
C13_PriorityOrder ==
    \A k \in 1..Len(calls) : \A l \in 1..Len(calls) :
        k < l =>
            LET first == rules[calls[k].index].config.priority
                second == rules[calls[l].index].config.priority
            IN \/ first > second
               \/ first = second /\ calls[k].index < calls[l].index

\* A pass over an engine to which a rule was added: two rules of priority
\* Medium were evaluated, and a rule registered later than both but of
\* higher priority before them
C13_Witness ==
    /\ Len(rules) = 4
    /\ \E k, l \in 1..Len(calls) :
          /\ k < l
          /\ rules[calls[k].index].config.priority = Medium
          /\ rules[calls[l].index].config.priority = Medium
    /\ \E k, l \in 1..Len(calls) :
          /\ k < l
          /\ calls[k].index > calls[l].index

\* C14: no two registered rules have the same name.
C14_UniqueNames ==
    \A i, j \in 1..Len(rules) : rules[i].rule = rules[j].rule => i = j

\* C15: the weight of every rule config is strictly positive.
C15_PositiveWeights ==
    \A i \in 1..Len(rules) : rules[i].config.weight > 0

\* C17: every rule registered by RuleEngine::new is enabled, its config
\* carries the rule's name and priority, and its weight is 3.0 for Critical,
\* 2.0 for High, 1.0 for Medium and 0.5 for Low.
C17_NewEngineConfig ==
    admin_calls = 0 =>
        /\ Len(rules) = 3
        /\ \A i \in 1..Len(rules) :
              /\ rules[i].config.enabled
              /\ rules[i].config.name = rules[i].rule
              /\ rules[i].config.priority = priority(rules[i].rule)
              /\ rules[i].config.priority = Critical =>
                    rules[i].config.weight = 300
              /\ rules[i].config.priority = High =>
                    rules[i].config.weight = 200
              /\ rules[i].config.priority = Medium =>
                    rules[i].config.weight = 100
              /\ rules[i].config.priority = Low =>
                    rules[i].config.weight = 50

\* The engine as new() built it, after a pass in which the rule of priority
\* High fired with its default weight
C17_Witness ==
    /\ admin_calls = 0
    /\ \E h \in 1..Len(result.hits) :
          /\ result.hits[h].rule_name = "high_risk_ip"
          /\ result.hits[h].score = 10000

\* C19: the hits of a pass are ordered by weighted score, highest first,
\* and are exactly the findings of the pass, one per rule that fired.
C19_HitsSortedByScore ==
    result.kind = "evaluation" =>
        /\ \A h \in 1..(Len(result.hits) - 1) :
              result.hits[h].score >= result.hits[h + 1].score
        /\ Len(result.hits) =
              Cardinality({i \in EnabledRules : OutcomeOf(i).tag = "hit"})
        /\ \A i \in EnabledRules :
              OutcomeOf(i).tag = "hit" =>
                  \E h \in 1..Len(result.hits) :
                      /\ result.hits[h].rule_name = rules[i].rule
                      /\ result.hits[h].score = ContributionOf(i)
                      /\ result.hits[h].reason = OutcomeOf(i).hit.reason

\* A pass whose hits the sort reordered: the rule evaluated first, its
\* weight lowered, is not the first hit
C19_Witness ==
    /\ result.kind = "evaluation"
    /\ Len(result.hits) >= 2
    /\ calls[1].outcome.tag = "hit"
    /\ result.hits[1].rule_name # calls[1].rule

\* C20: each call of evaluate increases metrics.total_evaluations by exactly
\* one, whatever the number of enabled rules and their outcomes, and no
\* other operation changes it: after n calls on a fresh engine it is n.
C20_TotalEvaluationsCountsCalls ==
    metrics.total_evaluations = evaluate_calls

\* Two calls were made, the second a pass over two enabled rules of which
\* one failed
C20_Witness ==
    /\ evaluate_calls = 2
    /\ admin_calls = 1
    /\ result.rule_count = 2
    /\ \E k \in 1..Len(calls) : calls[k].outcome.tag = "err"

\* The rule lists that rs can become without a set_rule_weight on name
\* and without an add_rule or remove_rule of name: rs itself, and rs after
\* set_rule_enabled on any rule or add_rule / remove_rule of another rule
FrameOutcomes(rs, name) ==
    {rs}
    \cup {WithEnabled(rs, n, b) : n \in RuleNames, b \in BOOLEAN}
    \cup {Retain(rs, n) : n \in RuleNames \ {name}}
    \cup {Append(rs, [rule |-> n, config |-> NewRuleConfig(n)]) :
            n \in RuleNames \ {name}}

\* C18: after set_rule_weight(name, w) on a registered rule every later
\* pass weights the findings of the rule called name by w, also when
\* set_rule_enabled on any rule, or add_rule or remove_rule of another rule,
\* came in between.
C18_WeightOverridePersists ==
    \A name \in RuleNames, w \in WeightInputs :
        FirstNamed(rules, name) # 0 =>
            \A rs \in FrameOutcomes(WithWeight(rules, name, w), name) :
                \A ctx \in EngineContexts :
                    LET pass == EvaluatePass(rs, metrics, ctx, 300)
                    IN \A h \in 1..Len(pass.result.hits) :
                          pass.result.hits[h].rule_name = name =>
                              \E k \in 1..Len(pass.calls) :
                                  /\ pass.calls[k].rule = name
                                  /\ pass.calls[k].outcome.tag = "hit"
                                  /\ pass.result.hits[h].score =
                                        ApplyWeight(
                                            pass.calls[k].outcome.hit.score, w)

\* The sum of f[1] .. f[n]
RECURSIVE SumTo(_, _)
SumTo(f, n) == IF n = 0 THEN 0 ELSE f[n] + SumTo(f, n - 1)

\* The number of rule.evaluate calls on the rule called name that the
\* analysis t has made, and the number of them that returned a finding
CallsOn(t, name) ==
    Cardinality({k \in 1..Len(service.tasks[t].acc.calls) :
                    service.tasks[t].acc.calls[k].rule = name})
HitsOn(t, name) ==
    Cardinality({k \in 1..Len(service.tasks[t].acc.calls) :
                    /\ service.tasks[t].acc.calls[k].rule = name
                    /\ service.tasks[t].acc.calls[k].outcome.tag = "hit"})

\* The analyses whose pass has returned
Completed == {t \in 1..MaxTasks : service.tasks[t].pc \in {"drop", "done"}}

\* C16: passes of concurrent analyses on one engine never overlap: an
\* analysis holds the lock from before its first rule until its pass has
\* updated the metrics; total_evaluations is the number of completed passes;
\* every hit counter and latency list has the updates of all passes; and the
\* rule list does not change while a pass runs, so each pass returns what an
\* undisturbed pass over the engine it locked returns.
C16_PassesNeverOverlap ==
    /\ \A t \in 1..MaxTasks :
          service.tasks[t].pc \in {"evaluate", "drop"} <=> service.lock = t
    /\ metrics.total_evaluations = Cardinality(Completed)
    /\ \A name \in RuleNames :
          /\ metrics.rule_hits[name] =
                SumTo([t \in 1..MaxTasks |-> HitsOn(t, name)], MaxTasks)
          /\ Len(metrics.evaluation_times[name]) =
                SumTo([t \in 1..MaxTasks |-> CallsOn(t, name)], MaxTasks)
    /\ \A t \in 1..MaxTasks :
          /\ service.tasks[t].pc = "evaluate" =>
                rules = service.tasks[t].locked
          /\ t \in Completed =>
                /\ service.tasks[t].result =
                      EvaluatePass(service.tasks[t].locked, DefaultMetrics,
                                   service.tasks[t].ctx, 300).result
                /\ service.tasks[t].acc.calls =
                      EvaluatePass(service.tasks[t].locked, DefaultMetrics,
                                   service.tasks[t].ctx, 300).calls

\* Every analysis has completed its pass, an administrative call changed the
\* rules between two of the passes, and both of these passes had findings
C16_Witness ==
    /\ Completed = 1..MaxTasks
    /\ metrics.total_evaluations = MaxTasks
    /\ admin_calls = 1
    /\ \E t, u \in 1..MaxTasks :
          /\ service.tasks[t].locked # service.tasks[u].locked
          /\ service.tasks[t].result.hits # <<>>
          /\ service.tasks[u].result.hits # <<>>

----------------------------------------------------------------------------
(* The metrics, the reference rules and the scoring stage                  *)

\* C23: VelocityRule returns a finding, of raw score 80, exactly when the
\* context has a user and the feature store reports more than 10
\* transactions: 10 gives none, 11 gives one, and with no user there is no
\* finding and no error whatever the feature store would answer.
C23_VelocityThreshold ==
    (calls # <<>> /\ calls[1].rule = "velocity_check" /\ calls[1].index = 0) =>
        LET outcome == calls[1].outcome IN
        /\ outcome.tag = "hit" <=>
              (context.user /\ context.count.ok /\ context.count.v > 10)
        /\ outcome.tag = "hit" => outcome.hit.score = 8000
        /\ (context.user /\ context.count.ok /\ context.count.v = 10) =>
              outcome.tag = "none"
        /\ (context.user /\ context.count.ok /\ context.count.v = 11) =>
              outcome.tag = "hit"
        /\ ~context.user => outcome.tag = "none"

\* VelocityRule was called on a context without a user whose feature store
\* would have failed
C23_Witness ==
    /\ calls # <<>>
    /\ calls[1].rule = "velocity_check"
    /\ calls[1].index = 0
    /\ ~context.user
    /\ ~context.count.ok
    /\ calls[1].outcome.tag = "none"

\* C24: SuspiciousAmountRule returns a finding of raw score 30 when the
\* order amount is strictly greater than 10,000, one of raw score 20 when it
\* is 0, and no finding and no error otherwise (10,000 itself, amounts
\* between 0 and 10,000, an absent amount).
C24_AmountThresholds ==
    (calls # <<>> /\ calls[1].rule = "suspicious_amount" /\ calls[1].index = 0)
    =>
        LET outcome == calls[1].outcome
            amount == context.amount
            above == amount.some /\ (amount.v > 10000 \/
                                     (amount.v = 10000 /\ amount.tiny > 0))
            zero == amount.some /\ amount.v = 0 /\ amount.tiny = 0
        IN /\ above => outcome.tag = "hit" /\ outcome.hit.score = 3000
           /\ zero => outcome.tag = "hit" /\ outcome.hit.score = 2000
           /\ ~above /\ ~zero => outcome.tag = "none"

\* Whether the step is a call of RuleEngine::evaluate
IsEvaluateStep == evaluate_calls' = evaluate_calls + 1

\* Whether an enabled rule called name is registered
EnabledNamed(name) ==
    \E i \in 1..Len(rules) : rules[i].rule = name /\ rules[i].config.enabled

\* C21: a pass appends exactly one latency sample to evaluation_times for
\* every enabled rule, whatever the rule returned, and none for a disabled
\* rule; no operation removes a sample, so the samples of a rule count the
\* passes in which it was enabled.
C21_OneSamplePerEnabledRule ==
    [][\A name \in RuleNames :
          LET before == metrics.evaluation_times[name]
              after == metrics'.evaluation_times[name]
          IN IF IsEvaluateStep
             THEN /\ Len(after) =
                        Len(before) + (IF EnabledNamed(name) THEN 1 ELSE 0)
                  /\ SubSeq(after, 1, Len(before)) = before
             ELSE after = before]_vars

\* C22: rule_hits[name] grows by exactly one in a pass in which the rule
\* returns a finding and stays in a pass in which it returns none, fails or
\* is disabled, and in every other operation, so it counts the findings of
\* the rule.
C22_HitCounterCountsFindings ==
    [][\A name \in RuleNames :
          LET fired == \E k \in 1..Len(calls') :
                          /\ calls'[k].rule = name
                          /\ calls'[k].outcome.tag = "hit"
          IN IF IsEvaluateStep /\ fired
             THEN metrics'.rule_hits[name] = metrics.rule_hits[name] + 1
             ELSE metrics'.rule_hits[name] = metrics.rule_hits[name]]_vars

\* C28: for every rule name rule_hits[name] is at most total_evaluations, so
\* hit_rate(name) lies in [0, 1], and it is 0 when no pass has run or the
\* name has never fired.
C28_HitRateInUnitInterval ==
    \A name \in RuleNames \cup {"unnamed_rule"} :
        /\ name \in RuleNames =>
              metrics.rule_hits[name] <= metrics.total_evaluations
        /\ hit_rate(metrics, name) >= 0
        /\ hit_rate(metrics, name) <= 100
        /\ metrics.total_evaluations = 0 => hit_rate(metrics, name) = 0
        /\ (name \in RuleNames /\ metrics.rule_hits[name] = 0) =>
              hit_rate(metrics, name) = 0

\* C25: in every ScoringResult total_score = base_score + rule_score,
\* rule_score is the total_score of the evaluation result, the
\* weighted_score values of the contributions sum to rule_score, and there is
\* exactly one contribution per hit.
C25_BreakdownAddsUp ==
    result.kind = "evaluation" =>
        \A cfg \in ScoringConfigs :
            LET scored == calculate_score(cfg, result)
                breakdown == scored.score_breakdown
                contributions == scored.rule_contributions
            IN /\ breakdown.total_score =
                      breakdown.base_score + breakdown.rule_score
               /\ breakdown.base_score = cfg.base_score
               /\ breakdown.rule_score = result.total_score
               /\ SumTo([i \in 1..Len(contributions) |->
                            contributions[i].weighted_score],
                        Len(contributions)) = breakdown.rule_score
               /\ Len(contributions) = Len(result.hits)
               /\ breakdown.rule_count = Len(result.hits)
               /\ \A i \in 1..Len(contributions) :
                     contributions[i].rule_name = result.hits[i].rule_name

\* A pass over a reweighted engine returned two findings or more, one of
\* them weighted with a weight that is not a default
C25_Witness ==
    /\ result.kind = "evaluation"
    /\ Len(result.hits) >= 2
    /\ result.total_score # 0
    /\ \E i \in EnabledRules :
          /\ OutcomeOf(i).tag = "hit"
          /\ rules[i].config.weight = 150

\* C26: for every evaluation result and scoring config, also with
\* thresholds that are not the defaults, the risk level and the disposition
\* of the TransactionAnalysisResponse are those that calculate_score
\* computed for the same evaluation result.
C26_ResponseAgreesWithScoring ==
    scoring.kind = "scoring" =>
        LET response == from_analysis(calculate_risk_score(config, result))
        IN /\ response.risk_level = scoring.risk_level
           /\ response.disposition = scoring.disposition

\* Low < Medium < High < VeryHigh
LevelRank(level) ==
    CASE level = "Low" -> 1
      [] level = "Medium" -> 2
      [] level = "High" -> 3
      [] level = "VeryHigh" -> 4

\* The totals an evaluation result is compared with: the next hundredth,
\* the next unit, every 25th unit, and NEG_INFINITY
ComparedTotals(t) ==
    {t + 1, t + 100, NegInfinity}
    \cup {u * 2500 : u \in (-(MaxUnits \div 25))..(MaxUnits \div 25)}

\* C30: for a scoring config with ascending thresholds calculate_score is
\* monotone in the total_score of the evaluation result, with normalization
\* enabled or disabled: a total that is no greater gets a risk score that
\* is no greater and a risk level that is no higher.
C30_ScoringMonotone ==
    (scoring.kind = "scoring" /\ result.total_score # NegInfinity) =>
        \A u \in ComparedTotals(result.total_score) :
            LET other == calculate_score(config, ResultWithTotal(u))
                lower == IF u <= result.total_score THEN other ELSE scoring
                higher == IF u <= result.total_score THEN scoring ELSE other
            IN /\ lower.risk_score <= higher.risk_score
               /\ LevelRank(lower.risk_level) <= LevelRank(higher.risk_level)

\* Whether new is rs with nothing changed but the field of the config that
\* same(_, _) does not compare, and that in rules called name only
OnlyChanged(rs, new, name, same(_, _)) ==
    /\ Len(new) = Len(rs)
    /\ \A i \in 1..Len(rs) :
          /\ new[i].rule = rs[i].rule
          /\ rs[i].rule # name => new[i] = rs[i]
          /\ same(rs[i].config, new[i].config)

SameButEnabled(old, new) ==
    /\ new.name = old.name
    /\ new.priority = old.priority
    /\ new.weight = old.weight

SameButWeight(old, new) ==
    /\ new.name = old.name
    /\ new.priority = old.priority
    /\ new.enabled = old.enabled

\* Whether new holds the rules of rs that are not called name, all of
\* them, unchanged and in their order
OnlyRemoved(rs, new, name) ==
    LET kept(i) == Cardinality({j \in 1..i : rs[j].rule # name})
    IN /\ Len(new) = kept(Len(rs))
       /\ \A i \in 1..Len(rs) : rs[i].rule # name => new[kept(i)] = rs[i]

\* What the three operations by name do to the present rule list
AdminFrame ==
    \A name \in RuleNames \cup {"unnamed_rule"} :
        LET known == \E i \in 1..Len(rules) : rules[i].rule = name IN
        /\ \A enabled \in BOOLEAN :
              LET new == WithEnabled(rules, name, enabled)
              IN /\ OnlyChanged(rules, new, name, SameButEnabled)
                 /\ ~known => new = rules
        /\ \A weight \in WeightInputs :
              LET new == WithWeight(rules, name, weight)
              IN /\ OnlyChanged(rules, new, name, SameButWeight)
                 /\ ~known => new = rules
        /\ OnlyRemoved(rules, Retain(rules, name), name)
        /\ ~known => Retain(rules, name) = rules

\* C29: set_rule_enabled and set_rule_weight change only the enabled flag,
\* respectively the weight, of the rule with the given name; remove_rule
\* removes only the rules of that name and keeps the others in their order;
\* each is a no-op when no rule has the name; and no administrative
\* operation, add_rule included, changes the metrics.
C29_AdminChangesOnlyWhatItNames ==
    /\ []AdminFrame
    /\ [][admin_calls' # admin_calls => metrics' = metrics]_vars

\* An administrative call removed a rule after a pass had filled the
\* metrics, which are still there
C29_Witness ==
    /\ admin_calls = 1
    /\ Len(rules) = 2
    /\ metrics.total_evaluations = 1
    /\ \E name \in RuleNames : metrics.rule_hits[name] = 1
    /\ result.kind = "none"

\* C27: when every feature-store lookup returns, every analyze_transaction
\* call that has asked for the engine lock gets it, finishes its pass and
\* releases the lock; none waits forever for a holder that is suspended on
\* a feature-store lookup.
C27_LockRequestCompletes ==
    \A t \in 1..MaxTasks :
        (service.tasks[t].pc = "lock") ~> (service.tasks[t].pc = "done")

====
